---- MODULE Spec2Model ----
(***************************************************************************)
(* A model of src/src/Fasta.cpp: the FASTA/FASTQ index (FastaIndex), its   *)
(* persisted form (.fai), and the random-access reader (FastaReference).   *)
(*                                                                         *)
(* Text is modelled byte by byte: a character is a one-character string, a *)
(* line is a sequence of characters, a file is a sequence of lines, each   *)
(* line ended by one terminator byte.  Numbers written to the index file   *)
(* are formatted to decimal digits and parsed back digit by digit.         *)
(***************************************************************************)
EXTENDS Integers, Sequences, FiniteSets, TLC

VARIABLES
    srcFile,   \* the reference file: a sequence of lines
    idxFile,   \* the .fai file beside it: [exists, lines]
    index,     \* FastaReference::index, the map name -> FastaIndexEntry
    scanned,   \* [done, index]: the map as indexReference left it in this run
    loop,      \* the build loop's locals: [i, entry, offset]
    pc,        \* "new" | "scan" | "load" | "ready" | "exit" | "exception" | "crash"
    how,       \* how the live index was made: "none" | "built" | "loaded"
    filePos,   \* the position of FastaReference::file
    call       \* the last retrieval call and what it returned

vars == <<srcFile, idxFile, index, scanned, loop, pc, how, filePos, call>>

---------------------------------------------------------------------------
(* Bounds of the model.                                                    *)

MaxLines == 4      \* lines of a generic reference file
MaxIdxLines == 3   \* lines of a pre-existing index file
MaxRecords == 2    \* records of a FASTQ file
MaxWidth == 2      \* wrap width of a wrapped record
MaxBases == 4      \* bases of a wrapped record
MaxGarbage == 1    \* bytes found behind an unterminated buffer

---------------------------------------------------------------------------
(* Characters and strings.                                                 *)

TAB == "\t"
NL == "\n"

Digits == <<"0", "1", "2", "3", "4", "5", "6", "7", "8", "9">>

\* the characters of the model in the order of their byte values
AsciiOrder ==
    <<TAB, NL, " ", "+", "-", "0", "1", "2", "3", "4", "5", "6", "7", "8", "9",
      ";", ">", "@", "A", "B", "C", "D", "G", "H", "I", "K", "M", "N", "R", "S",
      "T", "V", "W", "Y", "a", "b", "c", "e", "q", "s", "x">>

\* the rank of a character's byte value
Ord(c) == CHOOSE i \in 1..Len(AsciiOrder) : AsciiOrder[i] = c

\* operator< of std::string: lexicographic on bytes
RECURSIVE StrLess(_, _)
StrLess(s, t) ==
    IF t = <<>> THEN FALSE
    ELSE IF s = <<>> THEN TRUE
    ELSE IF Ord(Head(s)) < Ord(Head(t)) THEN TRUE
    ELSE IF Ord(Head(s)) > Ord(Head(t)) THEN FALSE
    ELSE StrLess(Tail(s), Tail(t))

\* line.substr(1, line_length - 1)
Substr1(line) == IF Len(line) <= 1 THEN <<>> ELSE SubSeq(line, 2, Len(line))

\* line[0]; the empty string yields its terminating NUL
FirstChar(line) == IF line = <<>> THEN "NUL" ELSE line[1]

\* boost::split(fields, s, is_any_of(seps)): no merging of adjacent separators
RECURSIVE SplitAcc(_, _, _, _)
SplitAcc(s, seps, cur, acc) ==
    IF s = <<>> THEN Append(acc, cur)
    ELSE IF Head(s) \in seps THEN SplitAcc(Tail(s), seps, <<>>, Append(acc, cur))
    ELSE SplitAcc(Tail(s), seps, Append(cur, Head(s)), acc)

Split(s, seps) == SplitAcc(s, seps, <<>>, <<>>)

\* ostream << of a non-negative integer: its decimal digits
RECURSIVE NatToStr(_)
NatToStr(n) ==
    IF n < 10 THEN <<Digits[n + 1]>>
    ELSE Append(NatToStr(n \div 10), Digits[(n % 10) + 1])

\* ostream << of an int or a long long
IntToStr(n) == IF n < 0 THEN <<"-">> \o NatToStr(0 - n) ELSE NatToStr(n)

DigitVal(c) == CHOOSE d \in 0..9 : Digits[d + 1] = c

IsDigit(c) == \E d \in 1..10 : Digits[d] = c

RECURSIVE DigitsVal(_, _)
DigitsVal(s, acc) ==
    IF s = <<>> THEN acc ELSE DigitsVal(Tail(s), 10 * acc + DigitVal(Head(s)))

AllDigits(s) == s # <<>> /\ \A i \in 1..Len(s) : IsDigit(s[i])

\* boost::lexical_cast<int> / <long long>: [ok, val]; not ok is bad_lexical_cast
LexicalCast(s) ==
    IF AllDigits(s) THEN [ok |-> TRUE, val |-> DigitsVal(s, 0)]
    ELSE IF Len(s) >= 2 /\ s[1] = "-" /\ AllDigits(Tail(s))
        THEN [ok |-> TRUE, val |-> 0 - DigitsVal(Tail(s), 0)]
    ELSE IF Len(s) >= 2 /\ s[1] = "+" /\ AllDigits(Tail(s))
        THEN [ok |-> TRUE, val |-> DigitsVal(Tail(s), 0)]
    ELSE [ok |-> FALSE, val |-> 0]

---------------------------------------------------------------------------
(* FastaIndexEntry and the map.                                            *)

FastaIndexEntry(name, length, offset, line_blen, line_len) ==
    [name |-> name, length |-> length, offset |-> offset,
     line_blen |-> line_blen, line_len |-> line_len]

\* FastaIndexEntry::clear
ClearEntry == FastaIndexEntry(<<>>, 0, -1, 0, 0)

EmptyIndex == [n \in {} |-> ClearEntry]

\* a map whose insert replaces the entry of a key that is present
MapInsertOverwrites(idx, key, e) ==
    [n \in DOMAIN idx \cup {key} |-> IF n = key THEN e ELSE idx[n]]

\* std::map::insert: a key that is present keeps its entry
MapInsert(idx, key, e) ==
    IF key \in DOMAIN idx THEN idx
    ELSE [n \in DOMAIN idx \cup {key} |-> IF n = key THEN e ELSE idx[n]]

\* the keys in the order a std::map iterates them
RECURSIVE SortedKeys(_)
SortedKeys(S) ==
    IF S = {} THEN <<>>
    ELSE LET least == CHOOSE k \in S : \A o \in S \ {k} : StrLess(k, o)
         IN  <<least>> \o SortedKeys(S \ {least})

\* FastaIndex::flushEntryToIndex
flushEntryToIndex(idx, entry) ==
    MapInsert(idx, entry.name,
              FastaIndexEntry(entry.name, entry.length, entry.offset,
                              entry.line_blen, entry.line_len))


---------------------------------------------------------------------------
(* FastaIndex::indexReference: the branches of its loop.                   *)

\* getline: the i-th line; past the end it fails and leaves the string empty
GetLine(file, i) == IF i <= Len(file) THEN file[i] ELSE <<>>

\* the sequence-line branch
ScanSequenceLine(entry, offset, line_length) ==
    LET ll == IF entry.line_len # 0 THEN entry.line_len ELSE line_length + 1
    IN  [entry EXCEPT !.offset = IF entry.offset = -1 THEN offset ELSE entry.offset,
                      !.length = entry.length + line_length,
                      !.line_len = ll,
                      !.line_blen = ll - 1]

\* the header branch: [entry, idx]
ScanHeaderLine(entry, idx, line) ==
    LET flushed == entry.name # <<>>
        e0 == IF flushed THEN ClearEntry ELSE entry
    IN  [entry |-> [e0 EXCEPT !.name = Substr1(line)],
         idx |-> IF flushed THEN flushEntryToIndex(idx, entry) ELSE idx]

\* the quality branch: two more getlines; the first is counted on the spot, the
\* second is left in line_length for the loop's own offset += line_length + 1
ScanQualityLines(file, i, offset) ==
    LET q == GetLine(file, i + 1)
        n == GetLine(file, i + 2)
    IN  [i |-> i + 3, offset |-> (offset + Len(q) + 1) + (Len(n) + 1)]

---------------------------------------------------------------------------
(* Writing and reading the index file.                                     *)

\* operator<<(ostream&, const FastaIndexEntry&)
EntryLine(e) ==
    e.name \o <<TAB>> \o IntToStr(e.length) \o <<TAB>> \o IntToStr(e.offset)
           \o <<TAB>> \o IntToStr(e.line_blen) \o <<TAB>> \o IntToStr(e.line_len)

\* fastaIndexEntryCompare
fastaIndexEntryCompare(a, b) == a.offset < b.offset

\* std::sort with fastaIndexEntryCompare: entries of equal offset may come out in
\* either order (the sort is not stable); rev picks between the two extremes
RECURSIVE SortByOffset(_, _)
SortByOffset(es, rev) ==
    IF es = <<>> THEN <<>>
    ELSE LET I == 1..Len(es)
             mins == {i \in I : \A j \in I : ~fastaIndexEntryCompare(es[j], es[i])}
             k == IF rev THEN CHOOSE i \in mins : \A j \in mins : j <= i
                         ELSE CHOOSE i \in mins : \A j \in mins : i <= j
             rest == [j \in 1..(Len(es) - 1) |-> IF j < k THEN es[j] ELSE es[j + 1]]
         IN  <<es[k]>> \o SortByOffset(rest, rev)

\* operator<<(ostream&, const FastaIndex&): the lines written
IndexLines(idx, rev) ==
    LET keys == SortedKeys(DOMAIN idx)
        sortedIndex == SortByOffset([i \in 1..Len(keys) |-> idx[keys[i]]], rev)
    IN  [i \in 1..Len(sortedIndex) |-> EntryLine(sortedIndex[i])]

\* the 5 fields of a line of readIndexFile: the entry, or bad_lexical_cast
ParseFields(fields) ==
    LET a == LexicalCast(fields[2])
        b == LexicalCast(fields[3])
        c == LexicalCast(fields[4])
        d == LexicalCast(fields[5])
    IN  [ok |-> a.ok /\ b.ok /\ c.ok /\ d.ok,
         entry |-> FastaIndexEntry(fields[1], a.val, b.val, c.val, d.val)]

\* boost::split(fields, line, boost::is_any_of("\t"))
TabFields(line) == Split(line, {TAB})

---------------------------------------------------------------------------
(* The reference file as bytes, and FastaReference's reads.                *)

RECURSIVE Bytes(_)
Bytes(file) ==
    IF file = <<>> THEN <<>> ELSE Head(file) \o <<NL>> \o Bytes(Tail(file))

Min(a, b) == IF a < b THEN a ELSE b

\* fseek64(file, target, SEEK_SET): a negative target fails and moves nothing
Fseek(pos, target) == IF target < 0 THEN pos ELSE target

\* fread(buf, 1, n, file) at position pos: the bytes that are there
Fread(bytes, pos, n) == SubSeq(bytes, pos + 1, Min(pos + n, Len(bytes)))

\* remove(pbegin, pend, '\n') / boost::erase_all(s, "\n")
RECURSIVE EraseNL(_)
EraseNL(s) ==
    IF s = <<>> THEN <<>>
    ELSE IF Head(s) = NL THEN EraseNL(Tail(s))
    ELSE <<Head(s)>> \o EraseNL(Tail(s))

\* the / of C on ints: truncation toward zero (b # 0)
CDiv(a, b) ==
    LET abs(x) == IF x < 0 THEN 0 - x ELSE x
        q == abs(a) \div abs(b)
    IN  IF (a < 0) = (b < 0) THEN q ELSE 0 - q

\* what a buffer can hold where nothing wrote it, up to the first NUL
GarbageChars == {"N"}
Garbage == UNION {[1..k -> GarbageChars] : k \in 0..MaxGarbage}

\* what reading through the end() iterator of the map can yield
GarbageEntries == {FastaIndexEntry(<<"x">>, 2, 0, 1, 2)}

\* FastaIndex::entry: find(name)->second; an absent name reads through end()
Lookup(idx, name) ==
    IF name \in DOMAIN idx THEN {[crash |-> FALSE, entry |-> idx[name]]}
    ELSE {[crash |-> TRUE, entry |-> ClearEntry]}
         \cup {[crash |-> FALSE, entry |-> g] : g \in GarbageEntries}

\* the bytes FastaReference::getSequence asks fread for
SequenceReadLength(entry) == entry.length

\* FastaReference::getSequence after the lookup; g is what lies in and behind the
\* buffer, which has no terminating NUL, where fread wrote nothing
getSequence(entry, bytes, pos, g) ==
    IF entry.length < 0
    THEN [outcome |-> "crash", result |-> <<>>, pos |-> pos, io |-> FALSE]
    ELSE LET at == Fseek(pos, entry.offset)
             data == Fread(bytes, at, SequenceReadLength(entry))
         IN  [outcome |-> "returned", result |-> EraseNL(data \o g),
              pos |-> at + Len(data), io |-> TRUE]

\* newlines_before of getSubSequence
NewlinesBefore(start, line_blen) ==
    IF start > 0 THEN CDiv(start - 1, line_blen) ELSE 0

\* newlines_by_end counted in lines of line_len bytes instead of line_blen bases
NewlinesByEndOfLineLen(start, length, line_blen) ==
    CDiv(start + length - 1, line_blen + 1)

\* newlines_by_end of getSubSequence
NewlinesByEnd(start, length, line_blen) == CDiv(start + length - 1, line_blen)

\* whether the fread of getSubSequence comes back short of seqlen bytes
ShortRead(entry, start, length, bytes, pos) ==
    /\ start >= 0 /\ length >= 1 /\ entry.line_blen # 0
    /\ LET nb == IF start > 0 THEN CDiv(start - 1, entry.line_blen) ELSE 0
           seqlen == length + CDiv(start + length - 1, entry.line_blen) - nb
           at == Fseek(pos, entry.offset + nb + start)
       IN  seqlen >= 0 /\ Len(Fread(bytes, at, seqlen)) < seqlen

\* FastaReference::getSubSequence after the lookup; g is what the buffer holds
\* where a short fread wrote nothing
getSubSequence(entry, start, length, bytes, pos, g) ==
    IF start < 0 \/ length < 1
    THEN [outcome |-> "exit", result |-> <<>>, pos |-> pos, io |-> FALSE]
    ELSE IF entry.line_blen = 0
    THEN [outcome |-> "crash", result |-> <<>>, pos |-> pos, io |-> FALSE]
    ELSE LET newlines_before == NewlinesBefore(start, entry.line_blen)
             newlines_by_end == NewlinesByEnd(start, length, entry.line_blen)
             newlines_inside == newlines_by_end - newlines_before
             seqlen == length + newlines_inside
             at == Fseek(pos, entry.offset + newlines_before + start)
             data == Fread(bytes, at, seqlen)
             tail == IF Len(data) < seqlen THEN SubSeq(g, 1, Min(Len(g), seqlen - Len(data)))
                     ELSE <<>>
         IN  IF seqlen < 0
             THEN [outcome |-> "crash", result |-> <<>>, pos |-> pos, io |-> FALSE]
             ELSE [outcome |-> "returned", result |-> EraseNL(data \o tail),
                   pos |-> at + Len(data), io |-> TRUE]

\* the first field of a name split on blank and tab
FirstToken(name) == Split(name, {TAB, " "})[1]

\* the loop of sequenceNameStartingWith over the remaining keys
RECURSIVE NameScan(_, _, _, _)
NameScan(idx, keys, seqnameStart, result) ==
    IF keys = <<>> THEN result
    ELSE IF FirstToken(idx[Head(keys)].name) = seqnameStart
    THEN IF result = <<>>
         THEN NameScan(idx, Tail(keys), seqnameStart, idx[Head(keys)].name)
         ELSE <<>>
    ELSE NameScan(idx, Tail(keys), seqnameStart, result)

\* FastaReference::sequenceNameStartingWith
sequenceNameStartingWith(idx, seqnameStart) ==
    NameScan(idx, SortedKeys(DOMAIN idx), seqnameStart, <<>>)

---------------------------------------------------------------------------
(* The files the model starts from.                                        *)

\* lines of a generic reference file: headers (plain name, name with a blank,
\* name with a tab, no name), a comment, two sequence lines, an empty line and
\* a quality separator
GenericLines ==
    { <<">", "a">>, <<">", "a", " ", "b">>, <<">", "a", TAB, "b">>, <<">">>,
      <<";", "c">>, <<"A", "C">>, <<"G">>, <<>>, <<"+">> }

GenericFiles == UNION {[1..k -> GenericLines] : k \in 0..MaxLines}

\* lines of an index file found on disk: three well-formed ones (two of them for
\* the same name), one with 4 fields, one with 6, an empty one, and one whose
\* length field is no number
IndexFileLines ==
    { <<"a", TAB, "2", TAB, "3", TAB, "2", TAB, "3">>,
      <<"a", TAB, "4", TAB, "9", TAB, "1", TAB, "2">>,
      <<"b", TAB, "1", TAB, "7", TAB, "1", TAB, "2">>,
      <<"a", TAB, "2", TAB, "3", TAB, "2">>,
      <<"a", TAB, "2", TAB, "3", TAB, "2", TAB, "3", TAB, "1">>,
      <<>>,
      <<"a", TAB, "x", TAB, "3", TAB, "2", TAB, "3">> }

IndexFiles == UNION {[1..k -> IndexFileLines] : k \in 0..MaxIdxLines}

\* the reference file of the documented scenario
ExampleFile ==
    << <<">", "s", "e", "q", "1">>,
       <<"A", "C", "G", "T", "A", "C", "G", "T", "A", "C">>,
       <<"G", "T", "A", "C", "G", "T">>,
       <<">", "s", "e", "q", "2">>,
       <<"T", "T", "T", "T">> >>

\* FASTQ: names, sequence lines with a quality line of the same length, and the
\* separator line, bare or repeating a name
FastqNames == {<<"a">>, <<"b">>, <<"c">>}
FastqReads == {<<<<"A">>, <<"I">>>>, <<<<"A", "C">>, <<"I", "I">>>>, <<<<"G", "T">>, <<"@", "I">>>>}
FastqSeparators == {<<"+">>, <<"+", "a">>}

FastqRecord(name, read, sep) == << <<"@">> \o name, read[1], sep, read[2] >>

RECURSIVE FastqFilesOf(_)
FastqFilesOf(n) ==
    IF n = 0 THEN {<<>>}
    ELSE {f \o FastqRecord(name, read, sep) :
            f \in FastqFilesOf(n - 1), name \in FastqNames,
            read \in FastqReads, sep \in FastqSeparators}

FastqHeaderNames(f) == {Substr1(f[i]) : i \in {j \in 1..Len(f) : j % 4 = 1}}

FastqFiles ==
    UNION {{f \in FastqFilesOf(n) : Cardinality(FastqHeaderNames(f)) = n} :
             n \in 1..MaxRecords}

\* a record of L bases wrapped at width W, every base a different letter
Iupac == <<"A", "C", "G", "T", "N", "R", "Y", "K", "M", "S", "W", "B", "D", "H", "V">>

WrappedLines(W, L) ==
    [k \in 1..((L + W - 1) \div W) |->
        [j \in 1..Min(W, L - (k - 1) * W) |-> Iupac[(k - 1) * W + j]]]

WrappedFile(W, L) ==
    << <<">", "a">> >> \o WrappedLines(W, L) \o << <<">", "b">>, <<"T", "T">> >>

WrappedFiles ==
    {WrappedFile(W, L) : W \in 1..MaxWidth, L \in 1..MaxBases}

\* reference files made of headers only, for the search by first token
NameLines ==
    { <<">">>, <<">", " ", "a">>, <<">", "a">>, <<">", "a", " ", "b">>,
      <<">", "a", TAB, "c">> }

NameFiles == UNION {[1..k -> NameLines] : k \in 1..MaxLines}

---------------------------------------------------------------------------
(* The state machine.                                                      *)

NoCall ==
    [op |-> "none", name |-> <<>>, start |-> 0, length |-> 0, outcome |-> "none",
     result |-> <<>>, entry |-> ClearEntry, io |-> FALSE]

NoIndexFile == [exists |-> FALSE, lines |-> <<>>]

LoopStart == [i |-> 1, entry |-> ClearEntry, offset |-> 0]

InitObject ==
    /\ index = EmptyIndex
    /\ scanned = [done |-> FALSE, index |-> EmptyIndex]
    /\ loop = LoopStart
    /\ pc = "new"
    /\ how = "none"
    /\ filePos = 0
    /\ call = NoCall

\* FastaReference::FastaReference up to the choice between reading and building
Construct ==
    /\ pc = "new"
    /\ pc' = IF idxFile.exists THEN "load" ELSE "scan"
    /\ index' = EmptyIndex
    /\ loop' = LoopStart
    /\ filePos' = 0
    /\ how' = "none"
    /\ call' = NoCall
    /\ UNCHANGED <<srcFile, idxFile, scanned>>

Scanning(c) ==
    /\ pc = "scan"
    /\ loop.i <= Len(srcFile)
    /\ FirstChar(srcFile[loop.i]) \in c

\* indexReference: a comment line
ScanComment ==
    /\ Scanning({";"})
    /\ loop' = [loop EXCEPT !.i = loop.i + 1,
                            !.offset = loop.offset + Len(srcFile[loop.i]) + 1]
    /\ UNCHANGED <<srcFile, idxFile, index, scanned, pc, how, filePos, call>>

\* indexReference: a quality separator and the two lines read after it
ScanQuality ==
    /\ Scanning({"+"})
    /\ LET q == ScanQualityLines(srcFile, loop.i, loop.offset)
       IN  loop' = [loop EXCEPT !.i = q.i, !.offset = q.offset]
    /\ UNCHANGED <<srcFile, idxFile, index, scanned, pc, how, filePos, call>>

\* indexReference: a header line
ScanHeader ==
    /\ Scanning({">", "@"})
    /\ LET h == ScanHeaderLine(loop.entry, index, srcFile[loop.i])
       IN  /\ index' = h.idx
           /\ loop' = [i |-> loop.i + 1, entry |-> h.entry,
                       offset |-> loop.offset + Len(srcFile[loop.i]) + 1]
    /\ UNCHANGED <<srcFile, idxFile, scanned, pc, how, filePos, call>>

\* indexReference: any other line is a sequence line
ScanSequence ==
    /\ pc = "scan"
    /\ loop.i <= Len(srcFile)
    /\ FirstChar(srcFile[loop.i]) \notin {";", "+", ">", "@"}
    /\ loop' = [i |-> loop.i + 1,
                entry |-> ScanSequenceLine(loop.entry, loop.offset, Len(srcFile[loop.i])),
                offset |-> loop.offset + Len(srcFile[loop.i]) + 1]
    /\ UNCHANGED <<srcFile, idxFile, index, scanned, pc, how, filePos, call>>

\* indexReference at the end of the file, then writeIndexFile.  The function
\* operator<<(ostream&, const FastaIndex&) ends without a return statement: after
\* its lines are written (endl flushes each) the build either carries on or traps.
ScanEnd ==
    /\ pc = "scan"
    /\ loop.i > Len(srcFile)
    /\ index' = flushEntryToIndex(index, loop.entry)
    /\ scanned' = [done |-> TRUE, index |-> index']
    /\ \E rev \in BOOLEAN :
         idxFile' = [exists |-> TRUE, lines |-> IndexLines(index', rev)]
    /\ \E traps \in BOOLEAN : pc' = IF traps THEN "crash" ELSE "ready"
    /\ how' = "built"
    /\ UNCHANGED <<srcFile, loop, filePos, call>>

Loading ==
    /\ pc = "load"
    /\ loop.i <= Len(idxFile.lines)

\* readIndexFile: a line of 5 fields whose numbers parse
LoadLine ==
    /\ Loading
    /\ LET fields == TabFields(idxFile.lines[loop.i])
       IN  /\ Len(fields) = 5
           /\ ParseFields(fields).ok
           /\ index' = MapInsert(index, fields[1], ParseFields(fields).entry)
    /\ loop' = [loop EXCEPT !.i = loop.i + 1]
    /\ UNCHANGED <<srcFile, idxFile, scanned, pc, how, filePos, call>>

\* readIndexFile: a line of 5 fields with a field lexical_cast rejects; nothing
\* catches bad_lexical_cast
LoadBadCast ==
    /\ Loading
    /\ LET fields == TabFields(idxFile.lines[loop.i])
       IN  /\ Len(fields) = 5
           /\ ~ParseFields(fields).ok
    /\ pc' = "exception"
    /\ UNCHANGED <<srcFile, idxFile, index, scanned, loop, how, filePos, call>>

\* readIndexFile: a line that does not split into 5 fields: exit(1)
LoadMalformed ==
    /\ Loading
    /\ Len(TabFields(idxFile.lines[loop.i])) # 5
    /\ pc' = "exit"
    /\ UNCHANGED <<srcFile, idxFile, index, scanned, loop, how, filePos, call>>

\* readIndexFile at the end of the file
LoadEnd ==
    /\ pc = "load"
    /\ loop.i > Len(idxFile.lines)
    /\ pc' = "ready"
    /\ how' = "loaded"
    /\ UNCHANGED <<srcFile, idxFile, index, scanned, loop, filePos, call>>

\* FastaReference::~FastaReference; the next run constructs a new object
Destroy ==
    /\ pc = "ready"
    /\ pc' = "new"
    /\ index' = EmptyIndex
    /\ how' = "none"
    /\ filePos' = 0
    /\ call' = NoCall
    /\ UNCHANGED <<srcFile, idxFile, scanned, loop>>

\* the inputs of the retrieval calls
AbsentNames == {<<"x">>}
QueryNames == DOMAIN index \cup AbsentNames
Starts == (-1)..MaxBases
Lengths == 0..MaxBases
Prefixes == {<<>>, <<"a">>, <<"b">>}

EndedAs(outcome) == IF outcome = "returned" THEN "ready" ELSE outcome

\* FastaIndex::entry
Entry ==
    /\ pc = "ready"
    /\ \E name \in QueryNames : \E lk \in Lookup(index, name) :
         /\ call' = [op |-> "entry", name |-> name, start |-> 0, length |-> 0,
                     outcome |-> IF lk.crash THEN "crash" ELSE "returned",
                     result |-> <<>>, entry |-> lk.entry, io |-> FALSE]
         /\ pc' = EndedAs(call'.outcome)
    /\ UNCHANGED <<srcFile, idxFile, index, scanned, loop, how, filePos>>

\* FastaReference::getSequence
GetSequence ==
    /\ pc = "ready"
    /\ LET bytes == Bytes(srcFile) IN
       \E name \in QueryNames : \E lk \in Lookup(index, name) : \E g \in Garbage :
         LET r == IF lk.crash
                  THEN [outcome |-> "crash", result |-> <<>>, pos |-> filePos, io |-> FALSE]
                  ELSE getSequence(lk.entry, bytes, filePos, g)
         IN  /\ g = <<>> \/ r.outcome = "returned"
             /\ call' = [op |-> "getSequence", name |-> name, start |-> 0, length |-> 0,
                         outcome |-> r.outcome, result |-> r.result,
                         entry |-> lk.entry, io |-> r.io]
             /\ filePos' = r.pos
             /\ pc' = EndedAs(r.outcome)
    /\ UNCHANGED <<srcFile, idxFile, index, scanned, loop, how>>

\* FastaReference::getSubSequence
GetSubSequence ==
    /\ pc = "ready"
    /\ LET bytes == Bytes(srcFile) IN
       \E name \in QueryNames : \E start \in Starts : \E length \in Lengths :
       \E lk \in Lookup(index, name) : \E g \in Garbage :
         LET r == IF lk.crash
                  THEN [outcome |-> "crash", result |-> <<>>, pos |-> filePos, io |-> FALSE]
                  ELSE getSubSequence(lk.entry, start, length, bytes, filePos, g)
         IN  /\ g = <<>> \/ (~lk.crash /\ ShortRead(lk.entry, start, length, bytes, filePos))
             /\ call' = [op |-> "getSubSequence", name |-> name, start |-> start,
                         length |-> length, outcome |-> r.outcome, result |-> r.result,
                         entry |-> lk.entry, io |-> r.io]
             /\ filePos' = r.pos
             /\ pc' = EndedAs(r.outcome)
    /\ UNCHANGED <<srcFile, idxFile, index, scanned, loop, how>>

\* FastaReference::sequenceNameStartingWith
SequenceNameStartingWith ==
    /\ pc = "ready"
    /\ \E prefix \in Prefixes :
         call' = [op |-> "sequenceNameStartingWith", name |-> prefix, start |-> 0,
                  length |-> 0, outcome |-> "returned",
                  result |-> sequenceNameStartingWith(index, prefix),
                  entry |-> ClearEntry, io |-> FALSE]
    /\ UNCHANGED <<srcFile, idxFile, index, scanned, loop, pc, how, filePos>>

---------------------------------------------------------------------------
(* Specifications.                                                         *)

\* building the index of a generic reference file, persisting it, and loading an
\* index file (the one just written, or one found on disk)
Init ==
    /\ InitObject
    /\ \/ srcFile \in GenericFiles \cup {ExampleFile} /\ idxFile = NoIndexFile
       \/ srcFile = ExampleFile /\ idxFile \in {[exists |-> TRUE, lines |-> l] : l \in IndexFiles}

Next ==
    \/ Construct
    \/ ScanComment
    \/ ScanQuality
    \/ ScanHeader
    \/ ScanSequence
    \/ ScanEnd
    \/ LoadLine
    \/ LoadBadCast
    \/ LoadMalformed
    \/ LoadEnd
    \/ Destroy

Spec == Init /\ [][Next]_vars

\* building the index of a FASTQ file
InitFastq ==
    /\ InitObject
    /\ srcFile \in FastqFiles
    /\ idxFile = NoIndexFile

NextFastq ==
    \/ Construct
    \/ ScanQuality
    \/ ScanHeader
    \/ ScanSequence
    \/ ScanEnd

SpecFastq == InitFastq /\ [][NextFastq]_vars

\* retrieval from reference files of wrapped records
InitQuery ==
    /\ InitObject
    /\ srcFile \in WrappedFiles
    /\ idxFile = NoIndexFile

NextQuery ==
    \/ Construct
    \/ ScanHeader
    \/ ScanSequence
    \/ ScanEnd
    \/ Entry
    \/ GetSequence
    \/ GetSubSequence

SpecQuery == InitQuery /\ [][NextQuery]_vars

\* the search by first token
InitNames ==
    /\ InitObject
    /\ srcFile \in NameFiles
    /\ idxFile = NoIndexFile

NextNames ==
    \/ Construct
    \/ ScanHeader
    \/ ScanEnd
    \/ SequenceNameStartingWith

SpecNames == InitNames /\ [][NextNames]_vars

---------------------------------------------------------------------------
(* The vocabulary of the claims: what a reference file contains, read off  *)
(* the file itself and not off the scan.                                   *)

IsHeader(l) == l # <<>> /\ l[1] \in {">", "@"}
IsComment(l) == l # <<>> /\ l[1] = ";"
IsSeqData(l) == l # <<>> /\ l[1] \notin {">", "@", ";", "+"}

\* a file of header, comment and non-empty sequence lines only
PlainFile(f) == \A i \in 1..Len(f) : IsHeader(f[i]) \/ IsComment(f[i]) \/ IsSeqData(f[i])

Headers(f) == {i \in 1..Len(f) : IsHeader(f[i])}

RecordName(f, h) == Tail(f[h])

Least(S) == CHOOSE x \in S : \A y \in S : x <= y
Greatest(S) == CHOOSE x \in S : \A y \in S : y <= x

\* the line after the record that starts at header h
RecordEnd(f, h) ==
    IF \E j \in Headers(f) : j > h THEN Least({j \in Headers(f) : j > h})
    ELSE Len(f) + 1

\* the sequence lines of the record that starts at header h
RecordSeq(f, h) == {j \in (h + 1)..(RecordEnd(f, h) - 1) : IsSeqData(f[j])}

RECURSIVE SumLen(_, _)
SumLen(f, S) ==
    IF S = {} THEN 0 ELSE LET j == Least(S) IN Len(f[j]) + SumLen(f, S \ {j})

\* the byte position of the first byte of line j
ByteOffset(f, j) == SumLen(f, 1..Min(j - 1, Len(f))) + Min(j - 1, Len(f))

RECURSIVE Concat(_, _)
Concat(f, S) ==
    IF S = {} THEN <<>> ELSE LET j == Least(S) IN f[j] \o Concat(f, S \ {j})

\* the bases of the record that starts at header h
RecordBases(f, h) == Concat(f, RecordSeq(f, h))

\* the entry the record that starts at header h should get
ExpectedEntry(f, h) ==
    IF RecordSeq(f, h) = {} THEN [ClearEntry EXCEPT !.name = RecordName(f, h)]
    ELSE LET first == Least(RecordSeq(f, h))
         IN  FastaIndexEntry(RecordName(f, h), SumLen(f, RecordSeq(f, h)),
                             ByteOffset(f, first), Len(f[first]), Len(f[first]) + 1)

HeadersNamed(f, name) == {h \in Headers(f) : RecordName(f, h) = name}

\* the record at header h is wrapped at one width W: its sequence lines follow
\* the header directly, all of W bases but a last one that may be shorter
Uniform(f, h) ==
    /\ RecordSeq(f, h) # {}
    /\ RecordSeq(f, h) = (h + 1)..(RecordEnd(f, h) - 1)
    /\ \A j \in RecordSeq(f, h) :
         /\ Len(f[j]) <= Len(f[h + 1])
         /\ j < RecordEnd(f, h) - 1 => Len(f[j]) = Len(f[h + 1])

\* the first whitespace-separated token of a name
RECURSIVE LeadingToken(_)
LeadingToken(name) ==
    IF name = <<>> \/ Head(name) \in {" ", TAB} THEN <<>>
    ELSE <<Head(name)>> \o LeadingToken(Tail(name))

---------------------------------------------------------------------------
(* The claims.                                                             *)

\* C1: for a record wrapped at width W whose entry has line_blen = W and offset =
\* the position of its first base, getSubSequence(name, start, length) with
\* start >= 0, length >= 1 and start + length <= L returns exactly the bases at
\* logical positions start .. start+length-1: length characters, no terminator
\* among them, none from outside the record.
C1_SubSequenceExact ==
    (/\ call.op = "getSubSequence"
     /\ call.name \in DOMAIN index
     /\ call.start >= 0
     /\ call.length >= 1)
    => LET h == Least(HeadersNamed(srcFile, call.name))
           bases == RecordBases(srcFile, h)
       IN  (/\ Uniform(srcFile, h)
            /\ index[call.name].line_blen = Len(srcFile[h + 1])
            /\ index[call.name].offset = ByteOffset(srcFile, h + 1)
            /\ call.start + call.length <= Len(bases))
           => /\ call.outcome = "returned"
              /\ call.result = SubSeq(bases, call.start + 1, call.start + call.length)
              /\ Len(call.result) = call.length
              /\ \A i \in 1..Len(call.result) : call.result[i] # NL

\* C1's case: a range that starts at a multiple of the width, after the first
\* line, and crosses two line ends, has been returned
C1_Witness ==
    /\ call.op = "getSubSequence"
    /\ call.name = <<"a">>
    /\ call.outcome = "returned"
    /\ LET W == Len(srcFile[2])
       IN  /\ Uniform(srcFile, 1)
           /\ call.start > 0
           /\ call.start % W = 0
           /\ call.start + call.length <= Len(RecordBases(srcFile, 1))
           /\ (call.start + call.length - 1) \div W >= (call.start \div W) + 2
           /\ call.result = SubSeq(RecordBases(srcFile, 1), call.start + 1,
                                   call.start + call.length)

\* C2: getSequence(name) returns all L bases of a uniformly wrapped record, the
\* terminators removed, also when the record spans several lines.  Stated for
\* the bases alone: the string returned begins with the L bases of the record
\* (what may follow them out of the unterminated buffer is left aside).
C2_SequenceWhole ==
    (/\ call.op = "getSequence"
     /\ call.name \in DOMAIN index)
    => LET h == Least(HeadersNamed(srcFile, call.name))
           bases == RecordBases(srcFile, h)
       IN  Uniform(srcFile, h)
           => /\ call.outcome = "returned"
              /\ Len(call.result) >= Len(bases)
              /\ SubSeq(call.result, 1, Len(bases)) = bases

\* C3: for a file of header, comment and non-empty sequence lines in any order,
\* every uniquely named record with at least one sequence line gets the entry
\* (name, offset of its first sequence line, sum of its sequence lines' lengths,
\* length of its first sequence line, that plus 1).
C3_ScannedEntries ==
    (scanned.done /\ PlainFile(srcFile))
    => \A h \in Headers(srcFile) :
         (/\ HeadersNamed(srcFile, RecordName(srcFile, h)) = {h}
          /\ RecordSeq(srcFile, h) # {})
         => /\ RecordName(srcFile, h) \in DOMAIN scanned.index
            /\ scanned.index[RecordName(srcFile, h)] = ExpectedEntry(srcFile, h)

\* C4: the index written by writeIndexFile after indexReference loads again, and
\* the loaded index equals the scanned one, whatever the names.
C4_RoundTrip ==
    scanned.done
    => /\ pc \notin {"exit", "exception"}
       /\ (pc = "ready" /\ how = "loaded") => index = scanned.index

\* C5: a lookup of a name that is no key of the index yields NotFound and does no
\* seek or read on the reference file.
C5_NotFound ==
    (/\ call.op \in {"entry", "getSequence", "getSubSequence"}
     /\ call.name \notin DOMAIN index)
    => /\ call.outcome = "NotFound"
       /\ ~call.io

\* C6: when readIndexFile stops at a line that does not split into 5 fields, the
\* index holds none of the entries of the lines before it.
C6_NoPartialIndex ==
    (pc = "exit" /\ call.op = "none") => index = EmptyIndex

\* C7: sequenceNameStartingWith(prefix) returns the full name of an entry iff
\* exactly one entry's first token equals prefix, and the empty string otherwise.
C7_UniqueFirstToken ==
    call.op = "sequenceNameStartingWith"
    => LET matches == {n \in DOMAIN index : LeadingToken(n) = call.name}
       IN  call.result = IF Cardinality(matches) = 1
                         THEN CHOOSE n \in matches : TRUE
                         ELSE <<>>

\* C8: a FASTQ file of n four-line records with distinct names yields n entries,
\* each with the offset and the length of its own sequence line; where the scan
\* stands before a line, the running offset is the number of bytes before it.
C8_FastqEntries ==
    /\ (pc = "scan" /\ loop.i <= Len(srcFile))
       => loop.offset = ByteOffset(srcFile, loop.i)
    /\ scanned.done
       => /\ DOMAIN scanned.index = {RecordName(srcFile, h) : h \in Headers(srcFile) \cap
                                        {j \in 1..Len(srcFile) : j % 4 = 1}}
          /\ \A k \in 0..((Len(srcFile) \div 4) - 1) :
               LET e == scanned.index[Tail(srcFile[4 * k + 1])]
               IN  /\ e.offset = ByteOffset(srcFile, 4 * k + 2)
                   /\ e.length = Len(srcFile[4 * k + 2])

\* the well-formed lines of an index file that name a given sequence
LinesNamed(lines, name) ==
    {i \in 1..Len(lines) : /\ Len(TabFields(lines[i])) = 5
                           /\ TabFields(lines[i])[1] = name}

\* C9 as stated: after the build the entry of a name that occurs several times is
\* that of the record (or line) that comes last.  The scan is taken on files of
\* header, comment and sequence lines.
C9_LastWriteWins ==
    /\ (scanned.done /\ PlainFile(srcFile))
       => \A h \in Headers(srcFile) :
            LET same == HeadersNamed(srcFile, RecordName(srcFile, h))
            IN  Cardinality(same) >= 2
                => /\ RecordName(srcFile, h) \in DOMAIN scanned.index
                   /\ scanned.index[RecordName(srcFile, h)]
                        = ExpectedEntry(srcFile, Greatest(same))
    /\ (pc = "ready" /\ how = "loaded")
       => \A n \in DOMAIN index :
            index[n] = ParseFields(TabFields(
                         idxFile.lines[Greatest(LinesNamed(idxFile.lines, n))])).entry

\* an entry that is in the map is still there, unchanged, after the step
EntriesKept == \A n \in DOMAIN index : n \in DOMAIN index' /\ index'[n] = index[n]

\* a loaded index holds for each name the entry of the first line that names it
LoadedFirst ==
    (pc = "ready" /\ how = "loaded")
    => \A n \in DOMAIN index :
         index[n] = ParseFields(TabFields(
                      idxFile.lines[Least(LinesNamed(idxFile.lines, n))])).entry

\* C9 as amended: first write wins.  While an index is built, by the scan or by the
\* load, an entry that is in the map is never replaced or removed; and a loaded
\* index holds for each name the entry of the first line that names it.
C9_FirstWriteWins ==
    /\ [][(pc \in {"scan", "load"}) => EntriesKept]_vars
    /\ []LoadedFirst

\* C9's case: a file with two records of one name and different data has been
\* scanned, and the entry is the first record's
C9_Witness ==
    /\ scanned.done
    /\ \E h1, h2 \in Headers(srcFile) :
         /\ h1 < h2
         /\ RecordName(srcFile, h1) = RecordName(srcFile, h2)
         /\ RecordSeq(srcFile, h1) # {}
         /\ RecordSeq(srcFile, h2) # {}
         /\ ExpectedEntry(srcFile, h1) # ExpectedEntry(srcFile, h2)
         /\ scanned.index[RecordName(srcFile, h1)] = ExpectedEntry(srcFile, h1)

\* C10: after indexReference every stored entry has line_len - line_blen = 1.
C10_LineLenInvariant ==
    scanned.done
    => \A n \in DOMAIN scanned.index :
         scanned.index[n].line_len - scanned.index[n].line_blen = 1

====
